---- MODULE Spec2Model ----
(***************************************************************************)
(* A model of the LinkedIn scraper (src/linkedin_scraper.py) and of the    *)
(* HTTP service that runs it as a background task (src/main.py).           *)
(*                                                                         *)
(* Spec        the orchestration: scrape invocations (API task or CLI),    *)
(*             the browser, the stored profile record, the task status.    *)
(* SpecScroll  the scroll loop of the comments extractor.                  *)
(* SpecComments, SpecPubs, SpecReactions, SpecLang                         *)
(*             the extractors, as functions of the page they are given.    *)
(* SpecExtract the list extractors on an absent or empty container.        *)
(* SpecLife    initialize_browser / close_browser called again and again.  *)
(* SpecPosts   the scroll loop of the posts extractor.                     *)
(* SpecTasks   two background tasks on one profile, and GET /tasks.        *)
(***************************************************************************)
EXTENDS Naturals, Sequences, FiniteSets

VARIABLES
    \* ---- orchestration (Spec) ----
    run,            \* number of invocations started so far
    kind,           \* "api" (_run_scraper_task) or "cli" (run_and_save)
    pc,             \* position of the current invocation
    flags,          \* scrape_posts / scrape_comments / scrape_reactions
    browser,        \* self.browser: "none" (None) or "open"
    context,        \* self.context is set
    cookieSet,      \* the li_at cookie was added to the context
    live,           \* browsers launched and not closed (all invocations)
    scraped_data,   \* the dict run() builds
    existing_data,  \* the dict read from the profile file
    runResult,      \* "none" | "returned" | "raised": how run() ended
    failedAt,       \* the step whose exception ended run(), or "none"
    executed,       \* stages of run() that were started
    produced,       \* keys for which a stage returned a non-empty result
    profileExists,  \* the profile file exists
    profileData,    \* its content
    taskFile,       \* content of the current task's status file
    written,        \* statuses written to that file, in order
    pending,        \* the status _write_task_status is writing
    opened,         \* the task file was opened (truncated) for that write
    \* ---- comments scroll loop (SpecScroll) ----
    scrollPc, iteration, last_height, stagnant_rounds, measured,
    \* ---- comment filter (SpecComments) ----
    cPc, profile_url, commentEls, comments_data,
    \* ---- full publications list (SpecPubs) ----
    pPc, pub_texts, pub_items,
    \* ---- reactions (SpecReactions) ----
    rPc, post_cards, reactions_data,
    \* ---- languages (SpecLang) ----
    lPc, lang_texts, lang_items,
    \* ---- a list extractor on a page (SpecExtract) ----
    xPc,            \* position in the extractor
    extractor,      \* which extractor runs
    container,      \* the section or feed it reads is on the page
    children,       \* the child items of its container, in page order
    position,       \* items of the page read so far
    items,          \* the list the extractor builds
    returned,       \* the list it returned
    xRaised,        \* an exception left the extractor
    \* ---- one scraper's browser over many calls (SpecLife) ----
    bPc,            \* "idle", or the position in initialize_browser
    self_browser,   \* self.browser: 0 (None) or the browser's number
    self_context,   \* self.context: its browser (0: None) and its cookie
    liveSet,        \* the browsers launched and not closed
    launches,       \* browsers launched so far
    calls,          \* calls made so far
    lastReturn,     \* how the last call ended
    heldAtCall,     \* self.browser when the last call began
    effect,         \* what the last call did: "none", "launched", "closed"
    \* ---- scroll phase of the posts extractor (SpecPosts) ----
    postsPc,            \* "loop", "done" or "raised"
    scroll_attempts,    \* consecutive rounds without a change of height
    posts_last_height,  \* last_height of extract_posts
    rounds,             \* rounds executed so far (counted up to RoundsCap)
    \* ---- two background tasks on one profile, and GET /tasks (SpecTasks) ----
    tpc,            \* position of each task
    tScraped,       \* scraped_data of each task
    tExisting,      \* existing_data of each task
    tOutcome,       \* the last status each task goes for: completed or error
    statusFile,     \* the status file of each task
    profileFile,    \* the profile file the tasks share
    baseRecord,     \* what the profile file held before the tasks
    getResponse     \* the answer of the last GET /tasks/{task_id}

mainVars == <<run, kind, pc, flags, browser, context, cookieSet, live,
              scraped_data, existing_data, runResult, failedAt, executed,
              produced, profileExists, profileData, taskFile, written,
              pending, opened>>
scrollVars == <<scrollPc, iteration, last_height, stagnant_rounds, measured>>
commentVars == <<cPc, profile_url, commentEls, comments_data>>
pubVars == <<pPc, pub_texts, pub_items>>
reactVars == <<rPc, post_cards, reactions_data>>
langVars == <<lPc, lang_texts, lang_items>>
extractVars == <<xPc, extractor, container, children, position, items, returned, xRaised>>
lifeVars == <<bPc, self_browser, self_context, liveSet, launches, calls,
              lastReturn, heldAtCall, effect>>
postsVars == <<postsPc, scroll_attempts, posts_last_height, rounds>>
taskVars == <<tpc, tScraped, tExisting, tOutcome, statusFile, profileFile,
              baseRecord, getResponse>>
extraVars == <<extractVars, lifeVars, postsVars, taskVars>>
vars == <<mainVars, scrollVars, commentVars, pubVars, reactVars, langVars, extraVars>>

(***************************************************************************)
(* Bounds of the model.                                                    *)
(***************************************************************************)
MaxRuns == 2
MaxHeight == 2
MaxComments == 2
MaxLines == 3
MaxCards == 22
MaxBlank == 2
MaxItems == 2
MaxCalls == 5

(***************************************************************************)
(* Records.  A dict is a total function on Keys; a key the dict does not   *)
(* hold maps to Absent.  A value is <<invocation, "data" | "empty">>:      *)
(* the invocation that scraped it, and whether the list is empty.          *)
(***************************************************************************)
Keys == {"headline", "publications", "posts", "comments", "reactions"}
Activities == {"posts", "comments", "reactions"}
Absent == <<0, "absent">>
EmptyDict == [k \in Keys |-> Absent]
Data(r) == <<r, "data">>
Empty(r) == <<r, "empty">>

\* Python's truth value of a dict: it holds a key.
Truthy(d) == \E k \in Keys : d[k] # Absent

\* dict.update(new): a mutant that replaces the dict instead.
UpdateReplaces(d, new) == new

\* dict.update(new)
Update(d, new) == [k \in Keys |-> IF new[k] # Absent THEN new[k] ELSE d[k]]

(***************************************************************************)
(* The extractor models are at rest while the orchestration runs, and the  *)
(* orchestration is at rest while an extractor model runs.                 *)
(***************************************************************************)
ScrollAtRest ==
    /\ scrollPc = "off" /\ iteration = 0 /\ last_height = 0
    /\ stagnant_rounds = 0 /\ measured = <<>>
CommentsAtRest ==
    /\ cPc = "off" /\ profile_url = <<>> /\ commentEls = <<>> /\ comments_data = <<>>
PubsAtRest ==
    /\ pPc = "off" /\ pub_texts = <<>> /\ pub_items = <<>>
ReactionsAtRest ==
    /\ rPc = "off" /\ post_cards = <<>> /\ reactions_data = <<>>
LangAtRest ==
    /\ lPc = "off" /\ lang_texts = <<>> /\ lang_items = <<>>
ExtractAtRest ==
    /\ xPc = "off" /\ extractor = "none" /\ container = FALSE
    /\ children = <<>> /\ position = 0
    /\ items = <<>> /\ returned = <<>> /\ xRaised = FALSE
NoContext == [of |-> 0, cookie |-> FALSE]
LifeAtRest ==
    /\ bPc = "off" /\ self_browser = 0 /\ self_context = NoContext
    /\ liveSet = {} /\ launches = 0 /\ calls = 0 /\ lastReturn = "none"
    /\ heldAtCall = 0 /\ effect = "none"
PostsAtRest ==
    /\ postsPc = "off" /\ scroll_attempts = 0 /\ posts_last_height = 0 /\ rounds = 0
Tasks == {1, 2}
NoFile == [state |-> "none", data |-> EmptyDict]
TasksAtRest ==
    /\ tpc = [t \in Tasks |-> "off"]
    /\ tScraped = [t \in Tasks |-> EmptyDict]
    /\ tExisting = [t \in Tasks |-> EmptyDict]
    /\ tOutcome = [t \in Tasks |-> "none"]
    /\ statusFile = [t \in Tasks |-> "none"]
    /\ profileFile = NoFile
    /\ baseRecord = NoFile
    /\ getResponse = "none"
ExtraAtRest == ExtractAtRest /\ LifeAtRest /\ PostsAtRest /\ TasksAtRest

OthersAtRest ==
    UNCHANGED <<scrollVars, commentVars, pubVars, reactVars, langVars, extraVars>>

(***************************************************************************)
(* Orchestration: the state after the service (or the CLI) has started.    *)
(***************************************************************************)
FlagSets == [Activities -> BOOLEAN]
NoFlags == [a \in Activities |-> FALSE]

InitMain ==
    /\ run = 0
    /\ kind = "none"
    /\ pc = "idle"
    /\ flags = NoFlags
    /\ browser = "none"
    /\ context = FALSE
    /\ cookieSet = FALSE
    /\ live = 0
    /\ scraped_data = EmptyDict
    /\ existing_data = EmptyDict
    /\ runResult = "none"
    /\ failedAt = "none"
    /\ executed = {}
    /\ produced = {}
    /\ profileExists = FALSE
    /\ profileData = EmptyDict
    /\ taskFile = "none"
    /\ written = <<>>
    /\ pending = "none"
    /\ opened = FALSE

\* LinkedInScraper.__init__ and the locals of a new invocation.  A task has
\* a fresh uuid4 as its id, so its status file is a new one: the files of
\* earlier tasks are never written again and are left out of the state.
NewInvocation(k, f) ==
    /\ run' = run + 1
    /\ kind' = k
    /\ flags' = f
    /\ browser' = "none"
    /\ context' = FALSE
    /\ cookieSet' = FALSE
    /\ scraped_data' = EmptyDict
    /\ runResult' = "none"
    /\ failedAt' = "none"
    /\ executed' = {}
    /\ produced' = {}
    /\ pending' = "none"
    /\ opened' = FALSE

CanStart == pc \in {"idle", "done"} /\ run < MaxRuns

\* POST /profiles/scrape: the task file is written (synchronously) as
\* queued, then the background task is scheduled.
scrape_profile(f) ==
    /\ CanStart
    /\ NewInvocation("api", f)
    /\ taskFile' = "queued"
    /\ written' = <<"queued">>
    /\ existing_data' = EmptyDict
    /\ pc' = "queued"
    /\ UNCHANGED <<live, profileExists, profileData>>
    /\ OthersAtRest

\* POST /profiles/scrape when the task file cannot be created (open fails:
\* no file) or written (json.dump fails: an empty file): HTTP 500, no task.
scrape_profile_fails(f, created) ==
    /\ CanStart
    /\ NewInvocation("api", f)
    /\ taskFile' = IF created THEN "empty" ELSE "none"
    /\ written' = <<>>
    /\ existing_data' = EmptyDict
    /\ pc' = "done"
    /\ UNCHANGED <<live, profileExists, profileData>>
    /\ OthersAtRest

\* The status _run_scraper_task writes first.
RunningStatusMutant == "completed"

RunningStatus == "running"

\* _run_scraper_task, up to its first await.
TaskStart ==
    /\ pc = "queued"
    /\ pending' = RunningStatus
    /\ pc' = "status_first"
    /\ UNCHANGED <<run, kind, flags, browser, context, cookieSet, live,
                   scraped_data, existing_data, runResult, failedAt, executed,
                   produced, profileExists, profileData, taskFile, written,
                   opened>>
    /\ OthersAtRest

InStatusWrite == pc \in {"status_first", "status_last"}

\* Where the task goes on after _write_task_status.
AfterStatus ==
    /\ pc' = IF pc = "status_first" THEN "launch" ELSE "done"
    /\ pending' = "none"
    /\ opened' = FALSE

StatusFrame ==
    /\ UNCHANGED <<run, kind, flags, browser, context, cookieSet, live,
                   scraped_data, existing_data, runResult, failedAt,
                   executed, produced, profileExists, profileData>>
    /\ OthersAtRest

\* _write_task_status: aiofiles.open(task_file, "w") truncates the file.
StatusOpen ==
    /\ InStatusWrite /\ ~opened
    /\ opened' = TRUE
    /\ taskFile' = "empty"
    /\ UNCHANGED <<pc, pending, written>>
    /\ StatusFrame

\* _write_task_status: open raises; the exception is printed and dropped.
StatusOpenFails ==
    /\ InStatusWrite /\ ~opened
    /\ AfterStatus
    /\ UNCHANGED <<taskFile, written>>
    /\ StatusFrame

\* _write_task_status: f.write(json.dumps(status_data)).
StatusWrite ==
    /\ InStatusWrite /\ opened
    /\ taskFile' = pending
    /\ written' = Append(written, pending)
    /\ AfterStatus
    /\ StatusFrame

\* _write_task_status: the write raises; the file stays truncated.
StatusWriteFails ==
    /\ InStatusWrite /\ opened
    /\ AfterStatus
    /\ UNCHANGED <<taskFile, written>>
    /\ StatusFrame

\* What reading the profile file gives: {} when there is no file.
StoredRecord == IF profileExists THEN profileData ELSE EmptyDict

\* run_and_save, up to scraper.run: existing_data is read first.
CliStart(f) ==
    /\ CanStart
    /\ NewInvocation("cli", f)
    /\ existing_data' = StoredRecord
    /\ taskFile' = "none"
    /\ written' = <<>>
    /\ pc' = "launch"
    /\ UNCHANGED <<live, profileExists, profileData>>
    /\ OthersAtRest

(***************************************************************************)
(* LinkedInScraper.run: initialize_browser and new_page, outside the try.  *)
(***************************************************************************)
RunFrame ==
    /\ UNCHANGED <<run, kind, flags, existing_data, profileExists,
                   profileData, taskFile, written, pending, opened>>
    /\ OthersAtRest

\* An exception raised in run() outside its try block reaches the caller.
RunRaises(step) ==
    /\ runResult' = "raised"
    /\ failedAt' = step
    /\ pc' = "after_run"

\* initialize_browser: p.chromium.launch.
Launch(ok) ==
    /\ pc = "launch" /\ browser = "none"
    /\ IF ok
       THEN /\ browser' = "open"
            /\ live' = live + 1
            /\ pc' = "context"
            /\ UNCHANGED <<runResult, failedAt>>
       ELSE /\ RunRaises("launch")
            /\ UNCHANGED <<browser, live>>
    /\ UNCHANGED <<context, cookieSet, scraped_data, executed, produced>>
    /\ RunFrame

\* initialize_browser: self.browser.new_context().
NewContext(ok) ==
    /\ pc = "context"
    /\ IF ok
       THEN /\ context' = TRUE
            /\ pc' = "cookie"
            /\ UNCHANGED <<runResult, failedAt>>
       ELSE /\ RunRaises("context")
            /\ UNCHANGED context
    /\ UNCHANGED <<browser, live, cookieSet, scraped_data, executed, produced>>
    /\ RunFrame

\* initialize_browser: self.context.add_cookies([li_at]).
AddCookies(ok) ==
    /\ pc = "cookie"
    /\ IF ok
       THEN /\ cookieSet' = TRUE
            /\ pc' = "page"
            /\ UNCHANGED <<runResult, failedAt>>
       ELSE /\ RunRaises("cookie")
            /\ UNCHANGED cookieSet
    /\ UNCHANGED <<browser, live, context, scraped_data, executed, produced>>
    /\ RunFrame

\* run: page = await self.context.new_page().
NewPage(ok) ==
    /\ pc = "page"
    /\ IF ok
       THEN /\ pc' = "nav_root"
            /\ UNCHANGED <<runResult, failedAt>>
       ELSE RunRaises("page")
    /\ UNCHANGED <<browser, live, context, cookieSet, scraped_data, executed, produced>>
    /\ RunFrame

(***************************************************************************)
(* LinkedInScraper.run: the try block.  A stage is a navigation or an      *)
(* extraction; Stages lists them in the order run() reaches them.          *)
(***************************************************************************)
Stages == <<"nav_root", "profile", "full_pubs", "nav_posts", "posts",
            "nav_comments", "comments", "nav_reactions", "reactions">>

\* The stages the caller's flags select.
Selected(f) ==
    {"nav_root", "profile", "full_pubs"}
        \cup (IF f["posts"] THEN {"nav_posts", "posts"} ELSE {})
        \cup (IF f["comments"] THEN {"nav_comments", "comments"} ELSE {})
        \cup (IF f["reactions"] THEN {"nav_reactions", "reactions"} ELSE {})

\* The first position at or after the if-statement of activity a.
RECURSIVE FromActivity(_, _)
FromActivity(a, f) ==
    CASE a = "posts" -> IF f["posts"] THEN "nav_posts" ELSE FromActivity("comments", f)
      [] a = "comments" -> IF f["comments"] THEN "nav_comments" ELSE FromActivity("reactions", f)
      [] a = "reactions" -> IF f["reactions"] THEN "nav_reactions" ELSE "return"
      [] OTHER -> "return"

\* The position after the block of activity a.
AfterActivity(a, f) ==
    CASE a = "posts" -> FromActivity("comments", f)
      [] a = "comments" -> FromActivity("reactions", f)
      [] OTHER -> "return"

\* run: return scraped_data.
Returns ==
    /\ runResult' = "returned"
    /\ pc' = "after_run"

\* A mutant of the except clause: the exception leaves run().
ExceptPropagates(stage) ==
    /\ runResult' = "raised"
    /\ failedAt' = stage
    /\ pc' = "after_run"

\* run: `except Exception as e: print(...)`, then `return scraped_data`.
Except(stage) ==
    /\ failedAt' = stage
    /\ Returns

\* Moving on to position next; run returns when the try block is over.
Goto(next) ==
    IF next = "return"
    THEN Returns /\ UNCHANGED failedAt
    ELSE pc' = next /\ UNCHANGED <<runResult, failedAt>>

TryFrame == UNCHANGED <<browser, live, context, cookieSet>> /\ RunFrame

\* run: page.goto(self.profile_url), lines 56-58.
NavRoot(ok) ==
    /\ pc = "nav_root"
    /\ executed' = executed \cup {"nav_root"}
    /\ IF ok THEN Goto("profile") ELSE Except("nav_root")
    /\ UNCHANGED <<scraped_data, produced>>
    /\ TryFrame

\* extract_profile_data returns its dict: the name and headline (key
\* "headline" stands for first_name, last_name and headline) and one list
\* per section, empty when the section is missing or its extractor caught
\* an exception (key "publications" stands for the section lists).
ProfileDict(pubs) ==
    [k \in Keys |->
        CASE k = "headline" -> Data(run)
          [] k = "publications" -> IF pubs = "data" THEN Data(run) ELSE Empty(run)
          [] OTHER -> Absent]

\* run: profile_data = await self.extract_profile_data(page); update.
ExtractProfile(pubs) ==
    /\ pc = "profile"
    /\ executed' = executed \cup {"profile"}
    /\ scraped_data' = Update(scraped_data, ProfileDict(pubs))
    /\ produced' = produced \cup {"headline"}
                         \cup (IF pubs = "data" THEN {"publications"} ELSE {})
    /\ Goto("full_pubs")
    /\ TryFrame

\* extract_profile_data raises: no h1 within the timeout, no headline.
ExtractProfileRaises ==
    /\ pc = "profile"
    /\ executed' = executed \cup {"profile"}
    /\ Except("profile")
    /\ UNCHANGED <<scraped_data, produced>>
    /\ TryFrame

\* run: `if result: scraped_data[key] = result` for a list extractor that
\* catches its own exceptions and then returns [].
StoreList(key, res) ==
    IF res = "data"
    THEN /\ scraped_data' = [scraped_data EXCEPT ![key] = Data(run)]
         /\ produced' = produced \cup {key}
    ELSE UNCHANGED <<scraped_data, produced>>

\* run: full_pubs = await self.extract_full_publications(page), lines 64-66.
FullPubs(res) ==
    /\ pc = "full_pubs"
    /\ executed' = executed \cup {"full_pubs"}
    /\ StoreList("publications", res)
    /\ Goto(FromActivity("posts", flags))
    /\ TryFrame

NavOf(a) ==
    CASE a = "posts" -> "nav_posts"
      [] a = "comments" -> "nav_comments"
      [] a = "reactions" -> "nav_reactions"

\* run: page.goto(<the activity's url>), lines 71, 79, 87.
NavActivity(a, ok) ==
    /\ pc = NavOf(a)
    /\ executed' = executed \cup {NavOf(a)}
    /\ IF ok THEN Goto(a) ELSE Except(NavOf(a))
    /\ UNCHANGED <<scraped_data, produced>>
    /\ TryFrame

\* run: extract_posts / extract_comments_with_post_context /
\* extract_reactions, and the store of a non-empty result.
ExtractActivity(a, res) ==
    /\ pc = a
    /\ executed' = executed \cup {a}
    /\ StoreList(a, res)
    /\ Goto(AfterActivity(a, flags))
    /\ TryFrame

(***************************************************************************)
(* The callers of run(): _run_scraper_task and run_and_save.               *)
(***************************************************************************)
\* close_browser: closes the browser the scraper holds, if any.
close_browser ==
    IF browser = "open"
    THEN browser' = "none" /\ live' = live - 1
    ELSE UNCHANGED <<browser, live>>

CallerFrame ==
    /\ UNCHANGED <<run, kind, flags, context, cookieSet, scraped_data,
                   runResult, failedAt, executed, produced, taskFile,
                   written, opened>>
    /\ OthersAtRest

\* _run_scraper_task: run returned; await scraper.close_browser().
ApiClose ==
    /\ pc = "after_run" /\ kind = "api" /\ runResult = "returned"
    /\ close_browser
    /\ pc' = "persist"
    /\ UNCHANGED <<existing_data, profileExists, profileData, pending>>
    /\ CallerFrame

\* _run_scraper_task: run raised; the except clause writes status error.
ApiExcept ==
    /\ pc = "after_run" /\ kind = "api" /\ runResult = "raised"
    /\ pending' = "error"
    /\ pc' = "status_last"
    /\ UNCHANGED <<browser, live, existing_data, profileExists, profileData>>
    /\ CallerFrame

\* _run_scraper_task: `if scraped_data:` is false; status completed.
ApiNothingToSave ==
    /\ pc = "persist" /\ ~Truthy(scraped_data)
    /\ pending' = "completed"
    /\ pc' = "status_last"
    /\ UNCHANGED <<browser, live, existing_data, profileExists, profileData>>
    /\ CallerFrame

\* _run_scraper_task: the profile file is read, lines 102-106.
ApiRead ==
    /\ pc = "persist" /\ Truthy(scraped_data)
    /\ existing_data' = StoredRecord
    /\ pc' = "write"
    /\ UNCHANGED <<browser, live, profileExists, profileData, pending>>
    /\ CallerFrame

\* _run_scraper_task: reading the profile file raises; status error.
ApiReadRaises ==
    /\ pc = "persist" /\ Truthy(scraped_data) /\ profileExists
    /\ pending' = "error"
    /\ pc' = "status_last"
    /\ UNCHANGED <<browser, live, existing_data, profileExists, profileData>>
    /\ CallerFrame

\* _run_scraper_task: existing_data.update(scraped_data) and the write of
\* the profile file, lines 108-112.
ApiWrite ==
    /\ pc = "write"
    /\ profileData' = Update(existing_data, scraped_data)
    /\ profileExists' = TRUE
    /\ pending' = "completed"
    /\ pc' = "status_last"
    /\ UNCHANGED <<browser, live, existing_data>>
    /\ CallerFrame

\* run_and_save: `finally: await scraper.close_browser()`.
CliFinally ==
    /\ pc = "after_run" /\ kind = "cli"
    /\ close_browser
    /\ pc' = IF runResult = "returned" THEN "cli_save" ELSE "done"
    /\ UNCHANGED <<existing_data, profileExists, profileData, pending>>
    /\ CallerFrame

\* run_and_save: `if scraped_data:` update and write, lines 523-526.
CliSave ==
    /\ pc = "cli_save"
    /\ IF Truthy(scraped_data)
       THEN /\ profileData' = Update(existing_data, scraped_data)
            /\ profileExists' = TRUE
       ELSE UNCHANGED <<profileData, profileExists>>
    /\ pc' = "done"
    /\ UNCHANGED <<browser, live, existing_data, pending>>
    /\ CallerFrame

Outcomes == {"data", "empty"}

NextMain ==
    \/ \E f \in FlagSets : scrape_profile(f)
    \/ \E f \in FlagSets, created \in BOOLEAN : scrape_profile_fails(f, created)
    \/ \E f \in FlagSets : CliStart(f)
    \/ TaskStart
    \/ StatusOpen
    \/ StatusOpenFails
    \/ StatusWrite
    \/ StatusWriteFails
    \/ \E ok \in BOOLEAN : Launch(ok)
    \/ \E ok \in BOOLEAN : NewContext(ok)
    \/ \E ok \in BOOLEAN : AddCookies(ok)
    \/ \E ok \in BOOLEAN : NewPage(ok)
    \/ \E ok \in BOOLEAN : NavRoot(ok)
    \/ \E pubs \in Outcomes : ExtractProfile(pubs)
    \/ ExtractProfileRaises
    \/ \E res \in Outcomes : FullPubs(res)
    \/ \E a \in Activities, ok \in BOOLEAN : NavActivity(a, ok)
    \/ \E a \in Activities, res \in Outcomes : ExtractActivity(a, res)
    \/ ApiClose
    \/ ApiExcept
    \/ ApiNothingToSave
    \/ ApiRead
    \/ ApiReadRaises
    \/ ApiWrite
    \/ CliFinally
    \/ CliSave

Init ==
    /\ InitMain
    /\ ScrollAtRest /\ CommentsAtRest /\ PubsAtRest /\ ReactionsAtRest /\ LangAtRest
    /\ ExtraAtRest

Next == NextMain

Spec == Init /\ [][Next]_vars

(***************************************************************************)
(* Claims about the orchestration, checked under Spec.                     *)
(***************************************************************************)
TryStages == {Stages[i] : i \in DOMAIN Stages}
InitSteps == {"launch", "context", "cookie", "page"}

\* C1: run never aborts early: when it has returned, every stage the
\* caller's flags select was executed, whichever stage failed.  (Stated as
\* the claim states it; the code skips every stage after a failed
\* navigation or a failed extract_profile_data.)
C1_NoEarlyAbort ==
    runResult = "returned" => Selected(flags) \subseteq executed

\* C2: an invocation (API task or CLI) that has finished has no browser
\* of its own still open.  (Stated as the claim states it; the API task
\* closes the browser only after a normal return of run.)
C2_BrowserReleased ==
    pc = "done" => live = 0

\* C3: no failure of a navigation or of an extractor inside run's try block
\* leaves run as an exception: run raises only from initialize_browser or
\* new_page; and when run has returned, the record holds the key of every
\* stage that returned a (non-empty) result before the failure, with the
\* value that stage scraped.
C3_NeverRaisesPastRun ==
    /\ failedAt \in TryStages => runResult # "raised"
    /\ runResult = "raised" => failedAt \in InitSteps
    /\ runResult = "returned" =>
          \A k \in produced : scraped_data[k][1] = run /\ scraped_data[k] # Absent

\* C3 witness: run returned after the navigation to the comments page
\* failed, and the record holds the posts scraped before it.
C3_Witness ==
    /\ runResult = "returned"
    /\ failedAt = "nav_comments"
    /\ "posts" \in produced
    /\ scraped_data["posts"] = Data(run)
    /\ scraped_data["comments"] = Absent

\* A step that merges the scrape result into the stored record.
MergeStep ==
    \/ pc = "write" /\ pc' # "write"
    \/ pc = "cli_save" /\ pc' # "cli_save" /\ Truthy(scraped_data)

\* C5: a merge is a shallow key overwrite: after it every key of the new
\* result holds the new value, every other key holds the value stored
\* before, and with no record stored before the stored record is the new
\* result; no other step changes the stored record.
C5_ShallowMerge ==
    [][ /\ MergeStep =>
            /\ profileExists'
            /\ \A k \in Keys :
                  profileData'[k] = IF scraped_data[k] # Absent
                                    THEN scraped_data[k]
                                    ELSE StoredRecord[k]
            /\ ~profileExists => profileData' = scraped_data
        /\ ~MergeStep => UNCHANGED <<profileExists, profileData>> ]_vars

\* C5 witness: the stored record holds one key written by the first
\* invocation and kept by the second, and one key the second overwrote.
C5_Witness ==
    /\ profileExists
    /\ pc = "done" /\ run = 2
    /\ \E k1, k2 \in Keys : profileData[k1][1] = 1 /\ profileData[k2][1] = 2

Rank(st) ==
    CASE st = "queued" -> 1
      [] st = "running" -> 2
      [] st \in {"completed", "error"} -> 3

\* C6: the status of a task moves forward only: the file holds queued when
\* POST returns (the task is scheduled), the statuses written to it are in
\* strictly increasing order queued < running < (completed | error), so
\* completed and error exclude each other, and once completed or error is
\* written the file keeps it.
C6_StatusForward ==
    /\ pc = "queued" => taskFile = "queued" /\ written = <<"queued">>
    /\ \A i, j \in DOMAIN written : i < j => Rank(written[i]) < Rank(written[j])
    /\ (written # <<>> /\ Rank(written[Len(written)]) = 3)
          => taskFile = written[Len(written)]

\* C6 witness: a task went through queued, running and completed.
C6_Witness ==
    /\ written = <<"queued", "running", "completed">>
    /\ taskFile = "completed"
    /\ pc = "done"

\* C14: a stage that failed or found nothing contributes nothing: at every
\* merge, a key that has a stored value and for which no stage of this
\* scrape returned a non-empty result keeps the value stored before.  (Stated as the claim states it;
\* extract_profile_data puts the empty list of a failed or empty section
\* extractor, and the defaults of location, about and services, into the
\* dict, and the merge overwrites the stored value with it.)
C14_FailedStageKeepsStored ==
    [][ MergeStep =>
            \A k \in Keys \ produced :
                StoredRecord[k] # Absent => profileData'[k] = StoredRecord[k] ]_vars

\* C16: while the status of a task is completed, a profile record is
\* stored for its profile, and the scrape of that task produced data.
\* (Stated as the claim states it; run returns {} when the navigation to
\* the profile fails, the task skips the save and writes completed.)
C16_CompletedHasRecord ==
    taskFile = "completed" => profileExists /\ Truthy(scraped_data)

(***************************************************************************)
(* SpecScroll: the scroll loop of extract_comments_with_post_context,      *)
(* lines 394-421.  `iteration` is the number of rounds executed so far     *)
(* (the loop variable of the next round); `measured` keeps the last three  *)
(* heights page.evaluate returned, oldest first.                           *)
(***************************************************************************)
max_scroll_rounds == 30
StagnationLimit == 2
Heights == 0..MaxHeight

\* A mutant of the round: the stagnation counter is never reset.
ScrollStepNoReset(last, stag, h) ==
    LET s == IF h = last THEN stag + 1 ELSE stag
    IN  [stagnant_rounds |-> s,
         break |-> s >= StagnationLimit,
         last_height |-> IF s >= StagnationLimit THEN last ELSE h]

\* One round, from the measurement on (lines 410-420): the counter, the
\* break, and last_height, which the break leaves as it was.
ScrollStep(last, stag, h) ==
    LET s == IF h = last THEN stag + 1 ELSE 0
    IN  [stagnant_rounds |-> s,
         break |-> s >= StagnationLimit,
         last_height |-> IF s >= StagnationLimit THEN last ELSE h]

\* The number of rounds the loop executes on the heights hs, one per round,
\* when it is at round i with the given last_height and counter.
RECURSIVE ScrollRounds(_, _, _, _)
ScrollRounds(hs, i, last, stag) ==
    IF i >= max_scroll_rounds \/ i >= Len(hs)
    THEN i
    ELSE LET st == ScrollStep(last, stag, hs[i + 1])
         IN  IF st.break
             THEN i + 1
             ELSE ScrollRounds(hs, i + 1, st.last_height, st.stagnant_rounds)

Last3(sq) == IF Len(sq) <= 3 THEN sq ELSE SubSeq(sq, Len(sq) - 2, Len(sq))

InitScroll ==
    /\ scrollPc = "loop"
    /\ iteration = 0
    /\ last_height = 0
    /\ stagnant_rounds = 0
    /\ measured = <<>>

ScrollFrame ==
    UNCHANGED <<mainVars, commentVars, pubVars, reactVars, langVars, extraVars>>

\* One round of the loop with measured height h; the loop ends on the
\* break or when range(max_scroll_rounds) is used up.
ScrollRound(h) ==
    /\ scrollPc = "loop" /\ iteration < max_scroll_rounds
    /\ LET st == ScrollStep(last_height, stagnant_rounds, h)
       IN  /\ stagnant_rounds' = st.stagnant_rounds
           /\ last_height' = st.last_height
           /\ scrollPc' = IF st.break \/ iteration + 1 = max_scroll_rounds
                          THEN "done" ELSE "loop"
    /\ iteration' = iteration + 1
    /\ measured' = Last3(Append(measured, h))
    /\ ScrollFrame

\* page.evaluate (or the wait) raises inside the loop: the extractor's
\* except clause ends the loop.
ScrollRaises ==
    /\ scrollPc = "loop" /\ iteration < max_scroll_rounds
    /\ scrollPc' = "raised"
    /\ UNCHANGED <<iteration, last_height, stagnant_rounds, measured>>
    /\ ScrollFrame

NextScroll ==
    \/ \E h \in Heights : ScrollRound(h)
    \/ ScrollRaises

ScrollInit ==
    /\ InitScroll /\ InitMain
    /\ CommentsAtRest /\ PubsAtRest /\ ReactionsAtRest /\ LangAtRest
    /\ ExtraAtRest

SpecScroll == ScrollInit /\ [][NextScroll]_vars

AllEqual(sq) == \A i, j \in DOMAIN sq : sq[i] = sq[j]

\* The round just executed is the second of two consecutive rounds whose
\* height is that of the round before: three equal measurements in a row.
StagnantByMeasurements ==
    iteration >= 3 /\ Len(measured) = 3 /\ AllEqual(measured)

\* The same, with the height before round 1 taken as 0, the initial value
\* of last_height.
StagnantFromZero ==
    LET hist == Last3(IF iteration < 3 THEN <<0>> \o measured ELSE measured)
    IN  Len(hist) = 3 /\ AllEqual(hist)

\* C4 as stated: the loop runs exactly min(max_scroll_rounds, r) rounds, r
\* the first round that is the second of two consecutive rounds with the
\* height of the round before it.  (Violated: a first height of 0 equals
\* the initial last_height and counts as a stagnant round.)
C4_RoundsAsStated ==
    /\ iteration <= max_scroll_rounds
    /\ scrollPc = "loop" => iteration < max_scroll_rounds /\ ~StagnantByMeasurements
    /\ scrollPc = "done" => iteration = max_scroll_rounds \/ StagnantByMeasurements

\* C4 amended: the same with the height before round 1 counted as 0: the
\* loop never runs more than max_scroll_rounds rounds, goes on while fewer
\* rounds were run and the last two rounds were not both stagnant, and
\* stops at the first round that makes two stagnant rounds in a row;
\* heights 100, 200, 200, 200 stop in round 4 and heights 0, 0 in round 2.
C4_ScrollRounds ==
    /\ iteration <= max_scroll_rounds
    /\ scrollPc = "loop" => iteration < max_scroll_rounds /\ ~StagnantFromZero
    /\ scrollPc = "done" => iteration = max_scroll_rounds \/ StagnantFromZero
    /\ ScrollRounds(<<100, 200, 200, 200, 300, 400>>, 0, 0, 0) = 4
    /\ ScrollRounds(<<0, 0, 100>>, 0, 0, 0) = 2

\* C4 witness: the loop stopped in round 4 after heights .., 2, 2, 2, the
\* last two rounds stagnant.
C4_Witness ==
    /\ scrollPc = "done"
    /\ iteration = 4
    /\ measured = <<2, 2, 2>>
    /\ stagnant_rounds = 2

(***************************************************************************)
(* Text.  A string is a sequence of characters; where only the place of a  *)
(* phrase matters, one character stands for the phrase.                    *)
(***************************************************************************)
Min(a, b) == IF a <= b THEN a ELSE b

\* s[i..] starts with n
StartsAt(s, i, n) ==
    /\ i + Len(n) - 1 <= Len(s)
    /\ SubSeq(s, i, i + Len(n) - 1) = n

\* str.startswith
StartsWith(s, n) == StartsAt(s, 1, n)

\* JavaScript's String.includes, Python's `in`
Includes(s, n) == \E i \in 1..(Len(s) + 1) : StartsAt(s, i, n)

\* str.strip / String.trim
RECURSIVE Strip(_)
Strip(s) ==
    IF s = <<>> THEN s
    ELSE IF Head(s) = " " THEN Strip(Tail(s))
    ELSE IF s[Len(s)] = " " THEN Strip(SubSeq(s, 1, Len(s) - 1))
    ELSE s

(***************************************************************************)
(* SpecComments: the slug of the profile (__init__, lines 17-19) and the   *)
(* script that picks the owner's comments (extractor_js, lines 424-464).   *)
(***************************************************************************)
In == <<"/", "i", "n", "/">>
Site == <<"h">>     \* stands for https://www.linkedin.com

\* The longest prefix of s[i..] without a "/"
RECURSIVE Segment(_, _)
Segment(s, i) ==
    IF i > Len(s) \/ s[i] = "/" THEN <<>> ELSE <<s[i]>> \o Segment(s, i + 1)

\* re.search(r"/in/([^/]+)", url): group 1 of the leftmost match, or "".
UserSlug(url) ==
    LET hits == {i \in 1..Len(url) : StartsAt(url, i, In) /\ Segment(url, i + 4) # <<>>}
    IN  IF hits = {} THEN <<>>
        ELSE Segment(url, (CHOOSE i \in hits : \A j \in hits : i <= j) + 4)

Slugs == {<<"a">>, <<"a", "b">>, <<"b">>}
ProfileUrls ==
    {Site \o In \o sl \o t : sl \in Slugs, t \in {<<>>, <<"/">>}}
        \cup {Site \o <<"/", "p", "/", "a">>}

\* The link to its author in a comment's list item, as a path or a url.
AuthorHref(author, form) ==
    IF form = "path" THEN In \o author ELSE Site \o In \o author \o <<"/">>

\* A comment element: whether it lies in a list item, the author link of
\* that list item, and the comment's text.
CommentElements ==
    [li : BOOLEAN, author : Slugs, form : {"path", "url"},
     text : {<<" ">>, <<" ", "x">>}]

\* isAuthoredByUser: the comment has a list item around it and a link in
\* it whose href includes '/in/' + userSlug.
isAuthoredByUser(el, userSlug) ==
    /\ el.li
    /\ Includes(AuthorHref(el.author, el.form), In \o userSlug)

\* extractor_js: one record per comment element that passes
\* isAuthoredByUser and has text after trim, in page order.
RECURSIVE ExtractorJs(_, _, _)
ExtractorJs(els, i, userSlug) ==
    IF i > Len(els) THEN <<>>
    ELSE (IF isAuthoredByUser(els[i], userSlug) /\ Strip(els[i].text) # <<>>
          THEN <<[el |-> i, commentText |-> Strip(els[i].text)]>>
          ELSE <<>>) \o ExtractorJs(els, i + 1, userSlug)

RECURSIVE SeqsUpTo(_, _)
SeqsUpTo(S, n) ==
    IF n = 0 THEN {<<>>}
    ELSE LET shorter == SeqsUpTo(S, n - 1)
         IN  shorter \cup {Append(sq, x) : sq \in {q \in shorter : Len(q) = n - 1}, x \in S}

InitComments ==
    /\ cPc = "loaded"
    /\ profile_url \in ProfileUrls
    /\ commentEls \in SeqsUpTo(CommentElements, MaxComments)
    /\ comments_data = <<>>

CommentsFrame ==
    UNCHANGED <<mainVars, scrollVars, pubVars, reactVars, langVars, extraVars>>

\* extract_comments_with_post_context: page.evaluate(extractor_js, user_slug)
EvaluateExtractor ==
    /\ cPc = "loaded"
    /\ comments_data' = ExtractorJs(commentEls, 1, UserSlug(profile_url))
    /\ cPc' = "done"
    /\ UNCHANGED <<profile_url, commentEls>>
    /\ CommentsFrame

\* extract_comments_with_post_context: page.evaluate raises; the except
\* clause returns the empty list.
EvaluateRaises ==
    /\ cPc = "loaded"
    /\ comments_data' = <<>>
    /\ cPc' = "raised"
    /\ UNCHANGED <<profile_url, commentEls>>
    /\ CommentsFrame

NextComments ==
    \/ EvaluateExtractor
    \/ EvaluateRaises

CommentsInit ==
    /\ InitComments /\ InitMain
    /\ ScrollAtRest /\ PubsAtRest /\ ReactionsAtRest /\ LangAtRest
    /\ ExtraAtRest

SpecComments == CommentsInit /\ [][NextComments]_vars

\* C7: the output holds exactly the non-empty comments whose list item has
\* an author link with the slug of the profile.  (Stated as the claim
\* states it; the code takes every link whose href contains '/in/' + slug,
\* so a longer slug with that prefix, and any slug when the profile's slug
\* is empty, pass too.)
C7_OnlyOwnComments ==
    cPc = "done" =>
        \A i \in DOMAIN commentEls :
            (\E j \in DOMAIN comments_data : comments_data[j].el = i)
                <=> /\ commentEls[i].li
                    /\ Strip(commentEls[i].text) # <<>>
                    /\ commentEls[i].author = UserSlug(profile_url)

(***************************************************************************)
(* SpecPubs: the list items of the /details/publications/ page and the     *)
(* filter of extract_full_publications, lines 251-272.  The text of a list *)
(* item is the sequence of its lines (full_text.split('\n')).  In a line,  *)
(* "b" is the bullet '·', "M" stands for the phrase 'More profiles', " "   *)
(* is white space, the other characters are other text.                    *)
(***************************************************************************)
Bullet == <<"b">>
MoreProfiles == <<"M">>

\* [line.strip() for line in full_text.split('\n') if line.strip()]
RECURSIVE NonEmptyLines(_)
NonEmptyLines(raw) ==
    IF raw = <<>> THEN <<>>
    ELSE (IF Strip(Head(raw)) # <<>> THEN <<Strip(Head(raw))>> ELSE <<>>)
             \o NonEmptyLines(Tail(raw))

RawLines ==
    {<<>>, <<" ">>, <<"x">>, <<" ", "y", " ">>, <<"b", "x">>, <<" ", "b">>,
     <<"M">>, <<"x", "M">>}

\* The texts of a list item: at least one line (split never returns []).
ItemTexts(lineSet) == SeqsUpTo(lineSet, MaxLines) \ {<<>>}

\* A mutant of the filter: the second line, not the third, drops the item.
IsRecommendationSecondLine(lines) ==
    \/ Includes(lines[1], MoreProfiles)
    \/ Len(lines) > 1 /\ StartsWith(lines[2], Bullet)

\* Lines 260-264: the item is a recommendation block ('More profiles' in
\* the first line, or a third line that starts with the bullet).
IsRecommendation(lines) ==
    \/ Includes(lines[1], MoreProfiles)
    \/ Len(lines) > 2 /\ StartsWith(lines[3], Bullet)

\* Lines 265-269: the publication of an item that is kept; <<>> is a field
\* the dict does not hold.
PublicationItem(i, lines) ==
    [li |-> i,
     title |-> lines[1],
     publisher |-> IF Len(lines) > 1 /\ ~StartsWith(lines[2], Bullet)
                   THEN lines[2] ELSE <<>>,
     date |-> IF Len(lines) > 2 /\ ~StartsWith(lines[3], Bullet)
              THEN lines[3] ELSE <<>>]

\* Lines 252-270: the loop over the list items of the page.
RECURSIVE FullPublications(_, _)
FullPublications(texts, i) ==
    IF i > Len(texts) THEN <<>>
    ELSE LET lines == NonEmptyLines(texts[i])
         IN  (IF lines = <<>> \/ IsRecommendation(lines)
              THEN <<>>
              ELSE <<PublicationItem(i, lines)>>) \o FullPublications(texts, i + 1)

\* A publication with a title, a publisher and a date.
RealPublication == <<<<"x">>, <<"y">>, <<"x", "y">>>>

\* The pages: no item, one item, or a real publication before one item.
PubPages ==
    {<<>>} \cup {<<t>> : t \in ItemTexts(RawLines)}
           \cup {<<RealPublication, t>> : t \in ItemTexts(RawLines)}

InitPubs ==
    /\ pPc = "loaded"
    /\ pub_texts \in PubPages
    /\ pub_items = <<>>

PubsFrame ==
    UNCHANGED <<mainVars, scrollVars, commentVars, reactVars, langVars, extraVars>>

\* extract_full_publications: the list items are read and filtered.
CollectPublications ==
    /\ pPc = "loaded"
    /\ pub_items' = FullPublications(pub_texts, 1)
    /\ pPc' = "done"
    /\ UNCHANGED pub_texts
    /\ PubsFrame

\* extract_full_publications: goto, the wait or a read raises; the except
\* clause returns [].
CollectPublicationsRaises ==
    /\ pPc = "loaded"
    /\ pub_items' = <<>>
    /\ pPc' = "raised"
    /\ UNCHANGED pub_texts
    /\ PubsFrame

NextPubs ==
    \/ CollectPublications
    \/ CollectPublicationsRaises

PubsInit ==
    /\ InitPubs /\ InitMain
    /\ ScrollAtRest /\ CommentsAtRest /\ ReactionsAtRest /\ LangAtRest
    /\ ExtraAtRest

SpecPubs == PubsInit /\ [][NextPubs]_vars

\* The item li of the page is in the returned list.
Returned(i) == \E j \in DOMAIN pub_items : pub_items[j].li = i

\* The n-th non-empty line of item i starts with the bullet.
BulletLine(i, n) ==
    LET lines == NonEmptyLines(pub_texts[i])
    IN  Len(lines) >= n /\ StartsWith(lines[n], Bullet)

\* C8 as stated: every list item whose second non-empty line begins with
\* the bullet is left out of the returned publications.  (Violated: the
\* code tests the third line.)
C8_SecondLineExcluded ==
    pPc = "done" =>
        \A i \in DOMAIN pub_texts : BulletLine(i, 2) => ~Returned(i)

\* C8 amended: every list item whose third non-empty line begins with the
\* bullet is left out; an item whose second non-empty line begins with the
\* bullet is returned, without a publisher, unless its third line begins
\* with the bullet too or its first line contains 'More profiles'.
C8_ThirdLineExcluded ==
    pPc = "done" =>
        \A i \in DOMAIN pub_texts :
            /\ BulletLine(i, 3) => ~Returned(i)
            /\ (/\ BulletLine(i, 2)
                /\ ~BulletLine(i, 3)
                /\ ~Includes(NonEmptyLines(pub_texts[i])[1], MoreProfiles))
                  => \E j \in DOMAIN pub_items :
                        /\ pub_items[j].li = i
                        /\ pub_items[j].title = NonEmptyLines(pub_texts[i])[1]
                        /\ pub_items[j].publisher = <<>>

\* C8 witness: a page with one item of three non-empty lines, the third
\* with the bullet, after a real publication: only the publication is
\* returned.
C8_Witness ==
    /\ pPc = "done"
    /\ pub_texts = <<RealPublication, <<<<"x">>, <<" ", "y", " ">>, <<" ", "b">>>>>>
    /\ pub_items = <<[li |-> 1, title |-> <<"x">>, publisher |-> <<"y">>,
                      date |-> <<"x", "y">>]>>

(***************************************************************************)
(* SpecReactions: extract_reactions, lines 470-500.  A card has its place  *)
(* on the page, the text of its actor line ("likes": a text with 'likes    *)
(* this' or 'celebrates this'; "other"; "none": no such element) and       *)
(* whether it has a content element.                                       *)
(***************************************************************************)
reactions_limit == 20

\* A mutant: every card of the page is taken.
ConsideredCardsAll(cards) == cards

\* post_cards[:self.reactions_limit]
ConsideredCards(cards) == SubSeq(cards, 1, Min(Len(cards), reactions_limit))

\* `if post_data:` the card gave a liked_by or a content.
HasPostData(card) == card.actor = "likes" \/ card.content

\* Lines 484-497: the loop over the cards taken.
RECURSIVE ReactionRecords(_)
ReactionRecords(cards) ==
    IF cards = <<>> THEN <<>>
    ELSE (IF HasPostData(Head(cards))
          THEN <<[card |-> Head(cards).id,
                  liked_by |-> Head(cards).actor = "likes",
                  content |-> Head(cards).content]>>
          ELSE <<>>) \o ReactionRecords(Tail(cards))

\* Lines 478-497.
ExtractReactions(cards) == ReactionRecords(ConsideredCards(cards))

\* A page of n cards: the cards at the places in blanks give no data; of
\* the others, the even ones have a 'likes this' actor (every fourth a
\* content too) and the odd ones a content and no or another actor text.
CardPage(n, blanks) ==
    [i \in 1..n |->
        IF i \in blanks
        THEN [id |-> i, actor |-> IF i % 2 = 0 THEN "other" ELSE "none",
              content |-> FALSE]
        ELSE [id |-> i,
              actor |-> IF i % 2 = 0 THEN "likes"
                        ELSE IF i % 3 = 0 THEN "other" ELSE "none",
              content |-> i % 2 = 1 \/ i % 4 = 0]]

InitReactions ==
    /\ rPc = "loaded"
    /\ \E n \in 0..MaxCards, b \in [1..MaxBlank -> 0..MaxCards] :
          post_cards = CardPage(n, {b[j] : j \in 1..MaxBlank})
    /\ reactions_data = <<>>

ReactionsFrame ==
    UNCHANGED <<mainVars, scrollVars, commentVars, pubVars, langVars, extraVars>>

\* extract_reactions: the cards are located and read.
CollectReactions ==
    /\ rPc = "loaded"
    /\ reactions_data' = ExtractReactions(post_cards)
    /\ rPc' = "done"
    /\ UNCHANGED post_cards
    /\ ReactionsFrame

\* extract_reactions: the wait for the first card times out (k = 0), or
\* the read of card k + 1 raises; the except clause is followed by the
\* return of the records collected from the first k cards.
CollectReactionsRaises(k) ==
    /\ rPc = "loaded"
    /\ k <= Len(ConsideredCards(post_cards))
    /\ reactions_data' = ReactionRecords(SubSeq(ConsideredCards(post_cards), 1, k))
    /\ rPc' = "raised"
    /\ UNCHANGED post_cards
    /\ ReactionsFrame

NextReactions ==
    \/ CollectReactions
    \/ \E k \in 0..reactions_limit : CollectReactionsRaises(k)

ReactionsInit ==
    /\ InitReactions /\ InitMain
    /\ ScrollAtRest /\ CommentsAtRest /\ PubsAtRest /\ LangAtRest
    /\ ExtraAtRest

SpecReactions == ReactionsInit /\ [][NextReactions]_vars

\* C9: at most reactions_limit records are returned, whatever the number
\* of cards; every record is of one of the first reactions_limit cards of
\* the page, and the records are those of the cards among them that gave
\* data, in page order.
C9_ReactionsLimit ==
    /\ Len(reactions_data) <= reactions_limit
    /\ \A j \in DOMAIN reactions_data : reactions_data[j].card <= reactions_limit
    /\ rPc = "done" =>
          /\ \A i \in DOMAIN post_cards :
                (\E j \in DOMAIN reactions_data : reactions_data[j].card = i)
                    <=> (i <= reactions_limit /\ HasPostData(post_cards[i]))
          /\ \A j, k \in DOMAIN reactions_data :
                j < k => reactions_data[j].card < reactions_data[k].card

\* C9 witness: a page of more than reactions_limit cards gave exactly
\* reactions_limit records, the last of them of card reactions_limit.
C9_Witness ==
    /\ rPc = "done"
    /\ Len(post_cards) = 22
    /\ Len(reactions_data) = 20
    /\ reactions_data[20].card = 20

(***************************************************************************)
(* SpecLang: extract_languages, lines 277-306.  The text of a list item is *)
(* the sequence of its lines; "E" and "N" stand for words such as English  *)
(* and Native.                                                             *)
(***************************************************************************)
NotSpecified == <<"Not specified">>

\* A mutant: the lines are not deduplicated.
DistinctLinesKeepsAll(lines) == lines

\* list(dict.fromkeys(lines)): the lines without the repetitions of an
\* earlier line, in the order of their first occurrence.
RECURSIVE DistinctLines(_)
DistinctLines(lines) ==
    IF lines = <<>> THEN <<>>
    ELSE LET front == DistinctLines(SubSeq(lines, 1, Len(lines) - 1))
             last == lines[Len(lines)]
         IN  IF \E i \in DOMAIN front : front[i] = last
             THEN front
             ELSE Append(front, last)

\* Lines 288-301: the records of the list items, one per item with a
\* non-empty line.
RECURSIVE LanguageItems(_, _)
LanguageItems(texts, i) ==
    IF i > Len(texts) THEN <<>>
    ELSE LET distinct_lines == DistinctLines(NonEmptyLines(texts[i]))
         IN  (IF distinct_lines # <<>>
              THEN <<[li |-> i,
                      language |-> distinct_lines[1],
                      proficiency |-> IF Len(distinct_lines) > 1
                                      THEN distinct_lines[2]
                                      ELSE NotSpecified]>>
              ELSE <<>>) \o LanguageItems(texts, i + 1)

RawLangLines ==
    {<<>>, <<" ">>, <<"E">>, <<" ", "E">>, <<"E", " ">>, <<"N">>,
     <<" ", "N", " ">>, <<"E", " ", "N">>}

\* A list item with a language and a proficiency.
FullLanguage == <<<<"N">>, <<"E", " ", "N">>>>

\* The sections: no item, one item, or a full item before one item.
LangPages ==
    {<<>>} \cup {<<t>> : t \in ItemTexts(RawLangLines)}
           \cup {<<FullLanguage, t>> : t \in ItemTexts(RawLangLines)}

InitLang ==
    /\ lPc = "loaded"
    /\ lang_texts \in LangPages
    /\ lang_items = <<>>

LangFrame ==
    UNCHANGED <<mainVars, scrollVars, commentVars, pubVars, reactVars, extraVars>>

\* extract_languages: the list items of the section are read.
CollectLanguages ==
    /\ lPc = "loaded"
    /\ lang_items' = LanguageItems(lang_texts, 1)
    /\ lPc' = "done"
    /\ UNCHANGED lang_texts
    /\ LangFrame

\* extract_languages: the read of item k + 1 raises (k = 0: the section
\* is not found); the records of the first k items are returned.
CollectLanguagesRaises(k) ==
    /\ lPc = "loaded"
    /\ k <= Len(lang_texts)
    /\ lang_items' = LanguageItems(SubSeq(lang_texts, 1, k), 1)
    /\ lPc' = "raised"
    /\ UNCHANGED lang_texts
    /\ LangFrame

NextLang ==
    \/ CollectLanguages
    \/ \E k \in 0..Len(lang_texts) : CollectLanguagesRaises(k)

LangInit ==
    /\ InitLang /\ InitMain
    /\ ScrollAtRest /\ CommentsAtRest /\ PubsAtRest /\ ReactionsAtRest
    /\ ExtraAtRest

SpecLang == LangInit /\ [][NextLang]_vars

\* The places of the lines of lines that differ from its first line.
OtherThanFirst(lines) == {j \in DOMAIN lines : lines[j] # lines[1]}

\* The place of the first occurrence of x in lines.
FirstAt(lines, x) == CHOOSE i \in DOMAIN lines :
                        lines[i] = x /\ \A j \in 1..(i - 1) : lines[j] # x

\* sq is lines without repetitions, in the order of first occurrence.
IsOrderedDedup(sq, lines) ==
    /\ {sq[i] : i \in DOMAIN sq} = {lines[i] : i \in DOMAIN lines}
    /\ \A i, j \in DOMAIN sq : i < j => FirstAt(lines, sq[i]) < FirstAt(lines, sq[j])

\* C10: the non-empty trimmed lines of an item are deduplicated by first
\* occurrence, in order; an item without such a line yields no record; any
\* other item yields one record whose language is its first line and whose
\* proficiency is the first line that differs from it, or "Not specified"
\* when no line differs.
C10_LanguageDedup ==
    lPc = "done" =>
        \A i \in DOMAIN lang_texts :
            LET lines == NonEmptyLines(lang_texts[i])
                recs == {j \in DOMAIN lang_items : lang_items[j].li = i}
            IN  /\ IsOrderedDedup(DistinctLines(lines), lines)
                /\ lines = <<>> => recs = {}
                /\ lines # <<>> =>
                      /\ Cardinality(recs) = 1
                      /\ \A j \in recs :
                            /\ lang_items[j].language = lines[1]
                            /\ lang_items[j].proficiency =
                                  IF OtherThanFirst(lines) = {}
                                  THEN NotSpecified
                                  ELSE lines[CHOOSE m \in OtherThanFirst(lines) :
                                               \A n \in OtherThanFirst(lines) : m <= n]

\* C10 witness: the lines English, English, Native give English / Native
\* (here after an item whose two lines differ).
C10_Witness ==
    /\ lPc = "done"
    /\ lang_texts = <<FullLanguage, <<<<"E">>, <<"E">>, <<"N">>>>>>
    /\ lang_items = <<[li |-> 1, language |-> <<"N">>, proficiency |-> <<"E", " ", "N">>],
                      [li |-> 2, language |-> <<"E">>, proficiency |-> <<"N">>]>>

(***************************************************************************)
(* SpecExtract: the list extractors, lines 161-500, on a page whose        *)
(* container (the section, or the activity feed) is absent, empty, or      *)
(* holds some child items.  A child is "data" (it gives a record) or       *)
(* "blank" (it has no text, or none of the elements the extractor reads).  *)
(* The scroll phase of the extractors that scroll lies between the wait    *)
(* and the reading of the items; it is modelled in the scroll models.      *)
(***************************************************************************)
Extractors ==
    {"experience", "education", "languages", "publications",
     "full_publications", "posts", "comments", "reactions"}

ItemKinds == {"data", "blank"}

\* The extractors that begin with page.wait_for_selector(<an item>), lines
\* 238, 352, 392, 474; the others read section.locator(...).all() at once.
WaitsForSelector(e) == e \in {"full_publications", "posts", "comments", "reactions"}

\* A mutant of the try blocks: the wait is outside the try.
InsideTryItemsOnly(e, step) == step # "wait"

\* The try block of an extractor holds all its statements: lines 167-207,
\* 214-229, 236-275, 283-304, 314-344, 351-377, 391-467, 473-499.
InsideTry(e, step) == TRUE

\* What one child adds to the list.  A blank child is skipped (continue, or
\* `if post_data:`), except in extract_publications, which appends the dict
\* of every list item, the empty dict too (lines 218-227).
ItemRecord(e, i, k) ==
    IF k = "data" THEN <<[item |-> i, filled |-> TRUE]>>
    ELSE IF e = "publications" THEN <<[item |-> i, filled |-> FALSE]>>
    ELSE <<>>

\* What the extractor returns after its except clause: the list built so
\* far; extract_full_publications returns [] (line 275) and the comments
\* extractor its initial [] (the list is assigned by evaluate, line 464).
ReturnedAfterExcept(e, its) ==
    IF e \in {"full_publications", "comments"} THEN <<>> ELSE its

InitExtract ==
    /\ xPc = "start"
    /\ extractor \in Extractors
    /\ container \in BOOLEAN
    /\ children \in SeqsUpTo(ItemKinds, MaxItems)
    /\ ~container => children = <<>>
    /\ position = 0
    /\ items = <<>>
    /\ returned = <<>>
    /\ xRaised = FALSE

ExtractFrame ==
    /\ UNCHANGED <<extractor, container, children>>
    /\ UNCHANGED <<mainVars, scrollVars, commentVars, pubVars, reactVars, langVars>>
    /\ UNCHANGED <<lifeVars, postsVars, taskVars>>

\* An exception at step: caught by the extractor's except clause, which is
\* followed by the return.
Fails(step) ==
    IF InsideTry(extractor, step)
    THEN /\ returned' = ReturnedAfterExcept(extractor, items)
         /\ xPc' = "done"
         /\ UNCHANGED xRaised
    ELSE /\ xRaised' = TRUE
         /\ xPc' = "raised"
         /\ UNCHANGED returned

\* page.wait_for_selector finds an item.
WaitForSelector ==
    /\ xPc = "start" /\ WaitsForSelector(extractor)
    /\ children # <<>>
    /\ xPc' = "loop"
    /\ UNCHANGED <<position, items, returned, xRaised>>
    /\ ExtractFrame

\* page.wait_for_selector times out: always when the page has no item,
\* possibly when it has (a slow page).
WaitTimesOut ==
    /\ xPc = "start" /\ WaitsForSelector(extractor)
    /\ Fails("wait")
    /\ UNCHANGED <<position, items>>
    /\ ExtractFrame

\* section.locator(...).all(): the list of the children, [] when the
\* section is absent (a locator does not wait).
LocateItems ==
    /\ xPc = "start" /\ ~WaitsForSelector(extractor)
    /\ xPc' = "loop"
    /\ UNCHANGED <<position, items, returned, xRaised>>
    /\ ExtractFrame

\* One pass of the loop over the children.
ReadItem ==
    /\ xPc = "loop" /\ position < Len(children)
    /\ position' = position + 1
    /\ items' = items \o ItemRecord(extractor, position + 1, children[position + 1])
    /\ UNCHANGED <<xPc, returned, xRaised>>
    /\ ExtractFrame

\* The read of a child raises (the element went away, a timeout).
ReadItemRaises ==
    /\ xPc = "loop" /\ position < Len(children)
    /\ Fails("item")
    /\ UNCHANGED <<position, items>>
    /\ ExtractFrame

\* return items
ReturnItems ==
    /\ xPc = "loop" /\ position = Len(children)
    /\ returned' = items
    /\ xPc' = "done"
    /\ UNCHANGED <<position, items, xRaised>>
    /\ ExtractFrame

NextExtract ==
    \/ WaitForSelector
    \/ WaitTimesOut
    \/ LocateItems
    \/ ReadItem
    \/ ReadItemRaises
    \/ ReturnItems

ExtractInit ==
    /\ InitExtract /\ InitMain
    /\ ScrollAtRest /\ CommentsAtRest /\ PubsAtRest /\ ReactionsAtRest /\ LangAtRest
    /\ LifeAtRest /\ PostsAtRest /\ TasksAtRest

SpecExtract == ExtractInit /\ [][NextExtract]_vars

\* C11: an extractor whose container is absent or has no child item raises
\* nothing and, when it is over, has returned the empty list; this holds
\* when its wait for the first item timed out too.
C11_EmptyContainer ==
    children = <<>> =>
        /\ ~xRaised /\ xPc # "raised"
        /\ returned = <<>>
        /\ xPc \in {"start", "loop", "done"}

\* C11 witness: the posts extractor on a page without the feed is over (its
\* wait timed out) and returned the empty list.
C11_Witness ==
    /\ xPc = "done"
    /\ extractor = "posts"
    /\ ~container /\ children = <<>>
    /\ returned = <<>> /\ ~xRaised

(***************************************************************************)
(* SpecLife: initialize_browser and close_browser (lines 25-48) called on  *)
(* one scraper any number of times, in any order, one call after the       *)
(* other; every Playwright call of theirs may raise.                       *)
(***************************************************************************)
InitLife ==
    /\ bPc = "idle"
    /\ self_browser = 0
    /\ self_context = NoContext
    /\ liveSet = {}
    /\ launches = 0
    /\ calls = 0
    /\ lastReturn = "none"
    /\ heldAtCall = 0
    /\ effect = "none"

LifeFrame ==
    /\ UNCHANGED <<mainVars, scrollVars, commentVars, pubVars, reactVars, langVars>>
    /\ UNCHANGED <<extractVars, postsVars, taskVars>>

\* A call begins.
BeginCall ==
    /\ bPc = "idle" /\ calls < MaxCalls
    /\ calls' = calls + 1
    /\ heldAtCall' = self_browser
    /\ effect' = "none"

\* initialize_browser: `if self.browser is None:`, line 26.
initialize_browser ==
    /\ BeginCall
    /\ IF self_browser = 0
       THEN bPc' = "launch" /\ lastReturn' = "none"
       ELSE bPc' = "idle" /\ lastReturn' = "init_returned"
    /\ UNCHANGED <<self_browser, self_context, liveSet, launches>>
    /\ LifeFrame

\* initialize_browser: self.browser = await p.chromium.launch(...).
InitLaunch(ok) ==
    /\ bPc = "launch"
    /\ IF ok
       THEN /\ launches' = launches + 1
            /\ self_browser' = launches + 1
            /\ liveSet' = liveSet \cup {launches + 1}
            /\ effect' = "launched"
            /\ bPc' = "context"
            /\ UNCHANGED lastReturn
       ELSE /\ lastReturn' = "init_raised"
            /\ bPc' = "idle"
            /\ UNCHANGED <<launches, self_browser, liveSet, effect>>
    /\ UNCHANGED <<self_context, calls, heldAtCall>>
    /\ LifeFrame

\* initialize_browser: self.context = await self.browser.new_context().
InitNewContext(ok) ==
    /\ bPc = "context"
    /\ IF ok
       THEN /\ self_context' = [of |-> self_browser, cookie |-> FALSE]
            /\ bPc' = "cookie"
            /\ UNCHANGED lastReturn
       ELSE /\ lastReturn' = "init_raised"
            /\ bPc' = "idle"
            /\ UNCHANGED self_context
    /\ UNCHANGED <<self_browser, liveSet, launches, calls, heldAtCall, effect>>
    /\ LifeFrame

\* initialize_browser: await self.context.add_cookies([li_at]).
InitAddCookies(ok) ==
    /\ bPc = "cookie"
    /\ IF ok
       THEN /\ self_context' = [self_context EXCEPT !.cookie = TRUE]
            /\ lastReturn' = "init_returned"
       ELSE /\ lastReturn' = "init_raised"
            /\ UNCHANGED self_context
    /\ bPc' = "idle"
    /\ UNCHANGED <<self_browser, liveSet, launches, calls, heldAtCall, effect>>
    /\ LifeFrame

\* close_browser: `if self.browser:` close it and set self.browser = None.
\* When browser.close() raises, self.browser is left as it was and the
\* browser is gone or not (gone).
CloseBrowser(ok, gone) ==
    /\ BeginCall
    /\ IF self_browser = 0
       THEN /\ lastReturn' = "close_returned"
            /\ UNCHANGED <<self_browser, liveSet>>
       ELSE IF ok
       THEN /\ liveSet' = liveSet \ {self_browser}
            /\ self_browser' = 0
            /\ lastReturn' = "close_returned"
       ELSE /\ liveSet' = IF gone THEN liveSet \ {self_browser} ELSE liveSet
            /\ lastReturn' = "close_raised"
            /\ UNCHANGED self_browser
    /\ UNCHANGED <<bPc, self_context, launches>>
    /\ LifeFrame

NextLife ==
    \/ initialize_browser
    \/ \E ok \in BOOLEAN : InitLaunch(ok)
    \/ \E ok \in BOOLEAN : InitNewContext(ok)
    \/ \E ok \in BOOLEAN : InitAddCookies(ok)
    \/ \E ok, gone \in BOOLEAN : CloseBrowser(ok, gone)

LifeInit ==
    /\ InitLife /\ InitMain
    /\ ScrollAtRest /\ CommentsAtRest /\ PubsAtRest /\ ReactionsAtRest /\ LangAtRest
    /\ ExtractAtRest /\ PostsAtRest /\ TasksAtRest

SpecLife == LifeInit /\ [][NextLife]_vars

\* C12: at most one browser is live; initialize_browser on a scraper that
\* holds a browser launches nothing; close_browser on a scraper that holds
\* none closes nothing; and when initialize_browser has returned normally
\* the scraper holds a live browser and a context of that browser with the
\* session cookie.  (Stated as the claim states it; after a call that
\* failed in new_context or add_cookies the next call returns normally
\* without a context, or without the cookie.)
C12_OneBrowserOneContext ==
    /\ Cardinality(liveSet) <= 1
    /\ (lastReturn = "init_returned" /\ heldAtCall # 0) => effect = "none"
    /\ (lastReturn = "close_returned" /\ heldAtCall = 0) => effect = "none"
    /\ lastReturn = "init_returned" =>
          /\ self_browser # 0 /\ self_browser \in liveSet
          /\ self_context = [of |-> self_browser, cookie |-> TRUE]

(***************************************************************************)
(* SpecPosts: the scroll phase of extract_posts, lines 354-364 (the loop   *)
(* of extract_full_publications, lines 240-250, is the same).  The loop    *)
(* has no round counter; `rounds` counts its rounds for the claims and     *)
(* stays at RoundsCap once it is reached.                                  *)
(***************************************************************************)
PostsStagnationLimit == 10
RoundsCap == max_scroll_rounds + 1

InitPosts ==
    /\ postsPc = "loop"
    /\ scroll_attempts = 0
    /\ posts_last_height = 0
    /\ rounds = 0

PostsFrame ==
    /\ UNCHANGED <<mainVars, scrollVars, commentVars, pubVars, reactVars, langVars>>
    /\ UNCHANGED <<extractVars, lifeVars, taskVars>>

\* One round with measured height new_height, lines 357-364, and the test
\* `while scroll_attempts < 10` that follows it.
PostsScrollRound(new_height) ==
    /\ postsPc = "loop"
    /\ LET attempts == IF new_height = posts_last_height
                       THEN scroll_attempts + 1 ELSE 0
       IN  /\ scroll_attempts' = attempts
           /\ postsPc' = IF attempts < PostsStagnationLimit THEN "loop" ELSE "done"
    /\ posts_last_height' = new_height
    /\ rounds' = Min(rounds + 1, RoundsCap)
    /\ PostsFrame

\* The wheel, the wait or page.evaluate raises: the except clause of the
\* extractor ends the loop.
PostsScrollRaises ==
    /\ postsPc = "loop"
    /\ postsPc' = "raised"
    /\ UNCHANGED <<scroll_attempts, posts_last_height, rounds>>
    /\ PostsFrame

NextPosts ==
    \/ \E h \in Heights : PostsScrollRound(h)
    \/ PostsScrollRaises

PostsInit ==
    /\ InitPosts /\ InitMain
    /\ ScrollAtRest /\ CommentsAtRest /\ PubsAtRest /\ ReactionsAtRest /\ LangAtRest
    /\ ExtractAtRest /\ LifeAtRest /\ TasksAtRest

\* The page goes on answering: the loop is never left waiting for ever.
SpecPosts == PostsInit /\ [][NextPosts]_vars /\ WF_vars(NextPosts)

\* C13: the scroll phase of the posts extractor terminates for every
\* sequence of measured heights, one whose height changes in every round
\* included.  (Stated as the claim states it; the loop has no round limit
\* and stops only after 10 rounds in a row without a change of height,
\* where the policy says 2, so it runs for ever on a page whose height
\* changes at least every tenth round.)
C13_PostsScrollStops == <>(postsPc # "loop")

(***************************************************************************)
(* SpecTasks: two background tasks (_run_scraper_task, main.py 86-118) for *)
(* the same profile on one event loop, and GET /tasks/{task_id} requests.  *)
(* A task yields to the others at every await: between the open and the    *)
(* write of a file, between the read of the profile file and its write.    *)
(* scraper.run is one step here; its stages are modelled in Spec.          *)
(***************************************************************************)
\* The key sets run() can return: nothing, the profile, the profile and
\* one activity.
ResultKeySets ==
    {{}, {"headline", "publications"}, {"headline", "publications", "posts"},
     {"headline", "publications", "comments"}}

\* The dict with the keys S, scraped by t (0: stored before the tasks).
RecordOf(S, t) == [k \in Keys |-> IF k \in S THEN Data(t) ELSE Absent]

Json(d) == [state |-> "json", data |-> d]
Truncated == [state |-> "empty", data |-> EmptyDict]
Corrupt == [state |-> "corrupt", data |-> EmptyDict]

\* A mutant of the read: the stored record is ignored.
LoadRecordEmpty(file) == EmptyDict

\* Lines 102-106: existing_data is {} without a file, else the file's json.
LoadRecord(file) == IF file.state = "json" THEN file.data ELSE EmptyDict

InitTasks ==
    /\ tpc = [t \in Tasks |-> "idle"]
    /\ tScraped = [t \in Tasks |-> EmptyDict]
    /\ tExisting = [t \in Tasks |-> EmptyDict]
    /\ tOutcome = [t \in Tasks |-> "none"]
    /\ statusFile = [t \in Tasks |-> "none"]
    /\ profileFile \in {NoFile, Json(RecordOf({"headline", "publications", "reactions"}, 0))}
    /\ baseRecord = profileFile
    /\ getResponse = "none"

TasksFrame ==
    /\ UNCHANGED <<mainVars, scrollVars, commentVars, pubVars, reactVars, langVars>>
    /\ UNCHANGED <<extractVars, lifeVars, postsVars>>
    /\ UNCHANGED baseRecord

\* scrape_profile: the task file is written as queued before POST returns.
PostScrape(t) ==
    /\ tpc[t] = "idle"
    /\ statusFile' = [statusFile EXCEPT ![t] = "queued"]
    /\ tpc' = [tpc EXCEPT ![t] = "queued"]
    /\ UNCHANGED <<tScraped, tExisting, tOutcome, profileFile, getResponse>>
    /\ TasksFrame

\* Where a task is about to open, and to write, its status file.
AtStatusOpen(t) == tpc[t] \in {"queued", "end_open"}
AtStatusWrite(t) == tpc[t] \in {"running_write", "end_write"}

\* The position after the step of _write_task_status at position at.
AfterStep(at) ==
    CASE at = "queued" -> "running_write"
      [] at = "running_write" -> "scrape"
      [] at = "end_open" -> "end_write"
      [] at = "end_write" -> "done"

\* The position after _write_task_status when the step at position at
\* raised (the exception is printed and dropped).
AfterFailedStep(at) ==
    IF at \in {"queued", "running_write"} THEN "scrape" ELSE "done"

\* _write_task_status: aiofiles.open(task_file, "w") truncates the file.
TaskStatusOpen(t) ==
    /\ AtStatusOpen(t)
    /\ statusFile' = [statusFile EXCEPT ![t] = "empty"]
    /\ tpc' = [tpc EXCEPT ![t] = AfterStep(tpc[t])]
    /\ UNCHANGED <<tScraped, tExisting, tOutcome, profileFile, getResponse>>
    /\ TasksFrame

\* _write_task_status: f.write(json.dumps(status_data)).
TaskStatusWrite(t) ==
    /\ AtStatusWrite(t)
    /\ statusFile' = [statusFile EXCEPT ![t] =
                         IF tpc[t] = "running_write" THEN RunningStatus ELSE tOutcome[t]]
    /\ tpc' = [tpc EXCEPT ![t] = AfterStep(tpc[t])]
    /\ UNCHANGED <<tScraped, tExisting, tOutcome, profileFile, getResponse>>
    /\ TasksFrame

\* _write_task_status: the open or the write raises; the file is left as
\* it is (truncated, when it was the write that raised).
TaskStatusFails(t) ==
    /\ AtStatusOpen(t) \/ AtStatusWrite(t)
    /\ tpc' = [tpc EXCEPT ![t] = AfterFailedStep(tpc[t])]
    /\ UNCHANGED <<statusFile, tScraped, tExisting, tOutcome, profileFile, getResponse>>
    /\ TasksFrame

\* scraper.run returned the dict with the keys S; `if scraped_data:`.
TaskRun(t, S) ==
    /\ tpc[t] = "scrape"
    /\ tScraped' = [tScraped EXCEPT ![t] = RecordOf(S, t)]
    /\ IF S = {}
       THEN /\ tOutcome' = [tOutcome EXCEPT ![t] = "completed"]
            /\ tpc' = [tpc EXCEPT ![t] = "end_open"]
       ELSE /\ tpc' = [tpc EXCEPT ![t] = "read"]
            /\ UNCHANGED tOutcome
    /\ UNCHANGED <<tExisting, statusFile, profileFile, getResponse>>
    /\ TasksFrame

\* scraper.run raised: the except clause writes status error.
TaskRunRaises(t) ==
    /\ tpc[t] = "scrape"
    /\ tOutcome' = [tOutcome EXCEPT ![t] = "error"]
    /\ tpc' = [tpc EXCEPT ![t] = "end_open"]
    /\ UNCHANGED <<tScraped, tExisting, statusFile, profileFile, getResponse>>
    /\ TasksFrame

\* Lines 102-106: the profile file is read.  json.loads raises on a file
\* another task has truncated and not yet written, or left unparseable.
TaskRead(t) ==
    /\ tpc[t] = "read"
    /\ IF profileFile.state \in {"empty", "corrupt"}
       THEN /\ tOutcome' = [tOutcome EXCEPT ![t] = "error"]
            /\ tpc' = [tpc EXCEPT ![t] = "end_open"]
            /\ UNCHANGED tExisting
       ELSE /\ tExisting' = [tExisting EXCEPT ![t] = LoadRecord(profileFile)]
            /\ tpc' = [tpc EXCEPT ![t] = "open"]
            /\ UNCHANGED tOutcome
    /\ UNCHANGED <<tScraped, statusFile, profileFile, getResponse>>
    /\ TasksFrame

\* Lines 108-109: existing_data.update(scraped_data), then
\* aiofiles.open(profile_file, "w") truncates the profile file.
TaskOpen(t) ==
    /\ tpc[t] = "open"
    /\ tExisting' = [tExisting EXCEPT ![t] = Update(tExisting[t], tScraped[t])]
    /\ profileFile' = Truncated
    /\ tpc' = [tpc EXCEPT ![t] = "write"]
    /\ UNCHANGED <<tScraped, tOutcome, statusFile, getResponse>>
    /\ TasksFrame

\* Line 110: f.write(json.dumps(existing_data)), at offset 0 of this
\* task's own handle.  When the other task has written since this task
\* truncated the file, the file holds this task's text alone (not shorter
\* than the other's) or this text followed by the rest of the other's
\* (torn), which is not json.
TaskWrite(t, torn) ==
    /\ tpc[t] = "write"
    /\ torn => profileFile.state # "empty"
    /\ profileFile' = IF torn THEN Corrupt ELSE Json(tExisting[t])
    /\ tOutcome' = [tOutcome EXCEPT ![t] = "completed"]
    /\ tpc' = [tpc EXCEPT ![t] = "end_open"]
    /\ UNCHANGED <<tScraped, tExisting, statusFile, getResponse>>
    /\ TasksFrame

\* _read_task_status: None when there is no file or json.loads raises (an
\* empty file); get_task_status answers 404 "Task not found" for None.
ReadTaskStatus(file) ==
    IF file \in {"none", "empty"} THEN "not_found" ELSE file

\* GET /tasks/{task_id} for a task_id that POST has returned.
get_task_status(t) ==
    /\ tpc[t] # "idle"
    /\ getResponse' = ReadTaskStatus(statusFile[t])
    /\ UNCHANGED <<tpc, tScraped, tExisting, tOutcome, statusFile, profileFile>>
    /\ TasksFrame

NextTasks ==
    \/ \E t \in Tasks : PostScrape(t)
    \/ \E t \in Tasks : TaskStatusOpen(t)
    \/ \E t \in Tasks : TaskStatusWrite(t)
    \/ \E t \in Tasks : TaskStatusFails(t)
    \/ \E t \in Tasks, S \in ResultKeySets : TaskRun(t, S)
    \/ \E t \in Tasks : TaskRunRaises(t)
    \/ \E t \in Tasks : TaskRead(t)
    \/ \E t \in Tasks : TaskOpen(t)
    \/ \E t \in Tasks, torn \in BOOLEAN : TaskWrite(t, torn)
    \/ \E t \in Tasks : get_task_status(t)

TasksInit ==
    /\ InitTasks /\ InitMain
    /\ ScrollAtRest /\ CommentsAtRest /\ PubsAtRest /\ ReactionsAtRest /\ LangAtRest
    /\ ExtractAtRest /\ LifeAtRest /\ PostsAtRest

SpecTasks == TasksInit /\ [][NextTasks]_vars

\* Task t is over, its status is completed and it had a result to save.
Saved(t) ==
    tpc[t] = "done" /\ statusFile[t] = "completed" /\ Truthy(tScraped[t])

\* The record stored before the tasks, merged with the result of task
\* first and then with the result of task second.
SerialMerge(first, second) ==
    Update(Update(baseRecord.data, tScraped[first]), tScraped[second])

\* C15 as stated: when both tasks completed, the stored record is the
\* result of the two merges applied one after the other, in one of the two
\* orders.  (Violated: a task that read the file before the other wrote it
\* writes back a record without the other's keys.)
C15_NoLostUpdate ==
    (\A t \in Tasks : Saved(t)) =>
        \E t \in Tasks : \E o \in Tasks \ {t} :
            profileFile = Json(SerialMerge(o, t))

\* C15 amended: the profile file is last-write-wins.  When both tasks
\* completed, the stored record is the result of the task t that wrote
\* last, merged into what t had read: the serial merge when t read after
\* the other task wrote, else the record stored before the tasks, and then
\* the keys of the other task alone are lost.  When the other task wrote
\* between t's open and t's write, the file can also be left unparseable.
C15_LastWriteWins ==
    (\A t \in Tasks : Saved(t)) =>
        \/ profileFile = Corrupt
        \/ \E t \in Tasks : \E o \in Tasks \ {t} :
              \/ profileFile = Json(SerialMerge(o, t))
              \/ profileFile = Json(Update(baseRecord.data, tScraped[t]))

\* C15 witness: both tasks completed and the posts that task 1 scraped and
\* saved are not in the stored record, which is task 2's merge into the
\* record stored before the tasks.
C15_Witness ==
    /\ \A t \in Tasks : Saved(t)
    /\ baseRecord.state = "json"
    /\ tScraped[1]["posts"] = Data(1)
    /\ profileFile = Json(Update(baseRecord.data, tScraped[2]))
    /\ profileFile.data["posts"] = Absent
    /\ profileFile.data["reactions"] = Data(0)

\* C17: every GET /tasks/{task_id}, for a task_id POST has returned, is
\* answered with a status among queued, running, completed and error,
\* never with "Task not found".  (Stated as the claim states it; a GET that
\* reads the task file between the truncating open and the write of
\* _write_task_status finds an empty file and is answered 404.)
C17_TaskAlwaysFound ==
    getResponse \in {"none", "queued", "running", "completed", "error"}

====
